---- MODULE Spec2Model ----
(***************************************************************************)
(* Pipeline coordination core of the research pipeline: intake (api_server *)
(* analyze), the search stage worker (search-worker process_search), the   *)
(* analysis stage worker (ai_worker process_ai), the Ledger rows they      *)
(* share and the two bus topics between them.                              *)
(*                                                                         *)
(* Every handler is cut at the calls that other processes can observe: a   *)
(* Ledger commit, a bus send, an offset commit.  Calls into the bus client *)
(* (producer.send_data, consumer.commit) either return or raise; a raise   *)
(* inside a worker's try block lands in its except handler.  The producer  *)
(* is asynchronous (send_data does not flush): a sent message is first     *)
(* buffered and reaches the topic, or fails into the errback, later.       *)
(* Ledger calls inside the try block are taken to succeed; an UPDATE waits *)
(* for a row lock held by another transaction.  The Ledger calls of the    *)
(* except handlers return or raise: nothing guards them in the search      *)
(* worker, a bare except swallows them in the analysis worker.             *)
(***************************************************************************)
EXTENDS Integers, FiniteSets, Sequences, TLC

\* ---------------------------------------------------------------- bounds
\* How often the bus hands out one task before its offset is committed.
MaxDeliveries == 2
\* The most rows search_and_crawl yields in the model (max_results in the code).
MaxResults == 1

\* search_and_crawl returns results[:3] when no result has content.
AtLeast == 3

\* The most SearchResult rows analyze_search_results is given in the model.
MaxItems == 3
MaxArrivals == 4
\* The largest max_retries a connection loop is called with in the model.
MaxRetries == 4
\* The most hits the search engine returns to search_and_crawl when the
\* function is checked on its own.
MaxHits == 4

\* analyze_search_results: the tokens kept back for the prompt scaffolding
\* and the output, the chunk size of the map phase, and max_tokens of the
\* map calls and of the final call.
RESERVED_TOKENS == 1800
MAP_CHUNK_SIZE == 3000
MapMaxTokens == 1024
FinalMaxTokens == 1536
\* len("...(truncated)")
MarkerChars == 14
\* The least the tokenizer gives a literal of the prompts: the separator
\* between items, the truncation marker, a label, the chat template.
LiteralTokens == 1

\* The request submitted to intake, and the replicas of the two stage workers.
Requests == {"r1"}
SearchWorkers == {"s1", "s2"}
AIWorkers == {"a1", "a2"}
\* A task left on a topic for a request id that has no Ledger row.  The model
\* starts either with a submission to intake or with such a task on one topic.
StaleId == "stale"
Ids == Requests \cup {StaleId}
\* The request_id of a worker that is between two messages.
NoRequest == "no_request"
\* No transaction holds the row lock.
NoOne == "no_one"

\* What fetching and extracting one hit gives: a text of more than 100
\* characters, nothing usable (fetch failed, text too short), or an exception.
FetchOutcomes == {"content", "empty", "raise"}

RECURSIVE SeqsUpTo(_, _)
SeqsUpTo(S, n) ==
  IF n = 0 THEN {<<>>}
  ELSE LET shorter == SeqsUpTo(S, n - 1)
       IN shorter \cup {Append(q, x) : q \in {t \in shorter : Len(t) = n - 1}, x \in S}

\* What the collaborators of one search_and_crawl call do: the search engine
\* raises, or returns hits whose fetch and extract behave as listed.
CrawlInputs ==
  {[engine |-> "raise", hits |-> <<>>]}
    \cup {[engine |-> "ok", hits |-> h] : h \in SeqsUpTo(FetchOutcomes, MaxResults)}

\* The worker has no search_and_crawl outcome at hand.
NoCrawl == [engine |-> "none", hits |-> <<>>]

\* The phase field of an analyze task: absent, "analyze", "generate_queries",
\* or any other value.
Phases == {"none", "analyze", "generate_queries", "unknown"}

Statuses ==
  {"pending", "searching", "processing_search", "analyzing",
   "processing_analysis", "completed", "failed"}

VARIABLES
  status,            \* requests.status per id, "absent" when there is no row
  error_message,     \* requests.error_message ("null" when unset)
  completed_at,      \* requests.completed_at is set
  search_results,    \* number of search_results rows of the request
  analysis_results,  \* number of analysis_results rows of the request
  lock,              \* holder of the FOR UPDATE row lock
  searchQ,           \* the search-queue task of the request
  analyzeQ,          \* the ai-queue task of the request
  sdeliv,            \* deliveries of the search task so far
  adeliv,            \* deliveries of the analyze task so far
  ipc,               \* position of intake's analyze() per request
  spc, scur,         \* search worker: position in process_search, request_id
  sseen,             \* search worker: what its lock query and lookup found
  sown,              \* search worker: holds the claim on scur
  scrawl,            \* search worker: what the collaborators did in its search
  apc, acur,         \* analysis worker: position in process_ai, request_id
  aseen,             \* analysis worker: what its lock query and lookup found
  aown,              \* analysis worker: holds the claim on acur
  sclaims, aclaims,  \* history: claims won per request and stage
  phase,             \* the phase field of the analyze task ("none": no field)
  \* analyze_search_results, modelled on its own
  fpc,               \* position in analyze_search_results
  max_model_len,     \* MAX_MODEL_LEN of the loaded model
  content_items,     \* content_items, one text item per SearchResult
  total_tokens,      \* len(tokenizer.encode(full_context_str))
  path,              \* the strategy taken: "direct" or "fold"
  chunks,            \* chunks: each the items joined into it
  current_chunk,     \* current_chunk
  current_tokens,    \* current_tokens
  next_item,         \* index of the item the chunking loop is at
  calls,             \* the llm.generate calls so far, each its list of prompts
  intermediate_summaries,  \* intermediate_summaries
  final_context,     \* final_context
  \* KafkaConsumerWrapper.get_messages, modelled on its own
  cpc,               \* position of the generator
  stop_event,        \* _stop_event
  backlog,           \* messages on the topic the consumer has not fetched
  arrived,           \* messages published to the topic so far
  yielded,           \* messages the generator has yielded so far
  producing,         \* whether a producer may still publish
  \* _create_producer_with_retry / _create_consumer_with_retry
  kpc,               \* position in the connection loop
  max_retries,       \* max_retries
  initial_delay,     \* the delay the loop was called with
  attempt,           \* attempt
  delay,             \* delay
  tried,             \* constructor calls made so far
  slept,             \* the time.sleep calls made so far
  last,              \* what the latest constructor call did
  \* functions and endpoints without state of their own
  fn,                \* the function called
  args,              \* its arguments and what it reads
  ret                \* what it returned or raised

ledger == <<status, error_message, completed_at, search_results, analysis_results>>
bus == <<searchQ, analyzeQ, sdeliv, adeliv>>
sworker == <<spc, scur, sseen, sown, scrawl>>
aworker == <<apc, acur, aseen, aown>>
hist == <<sclaims, aclaims>>
folding ==
  <<fpc, max_model_len, content_items, total_tokens, path, chunks, current_chunk,
    current_tokens, next_item, calls, intermediate_summaries, final_context>>
consuming == <<cpc, stop_event, backlog, arrived, yielded, producing>>
\* What no step of intake, the bus or the stage workers changes: the phase a
\* task was published with, and the parts modelled on their own.
startup == <<kpc, max_retries, initial_delay, attempt, delay, tried, slept, last>>
calling == <<fn, args, ret>>
elsewhere == <<phase, folding, consuming, startup, calling>>
core == <<ledger, lock, bus, ipc, sworker, aworker, hist>>
vars == <<core, elsewhere>>

\* No connection loop is running.
StartupIdle ==
  /\ kpc = "off"
  /\ max_retries = 0
  /\ initial_delay = 0
  /\ attempt = 0
  /\ delay = 0
  /\ tried = 0
  /\ slept = <<>>
  /\ last = "none"

\* Nothing was called and nothing returned.
NoReturn == [kind |-> "none"]

\* No function is being called.
CallingIdle ==
  /\ fn = "none"
  /\ args = <<>>
  /\ ret = NoReturn

\* analyze_search_results is not running.
FoldingIdle ==
  /\ fpc = "off"
  /\ max_model_len = 0
  /\ content_items = <<>>
  /\ total_tokens = 0
  /\ path = "none"
  /\ chunks = <<>>
  /\ current_chunk = <<>>
  /\ current_tokens = 0
  /\ next_item = 0
  /\ calls = <<>>
  /\ intermediate_summaries = <<>>
  /\ final_context = <<>>

\* No get_messages generator is running.
ConsumingIdle ==
  /\ cpc = "off"
  /\ stop_event = FALSE
  /\ backlog = 0
  /\ arrived = 0
  /\ yielded = 0
  /\ producing = FALSE

Init ==
  /\ FoldingIdle
  /\ ConsumingIdle
  /\ StartupIdle
  /\ CallingIdle
  /\ status = [r \in Ids |-> "absent"]
  /\ error_message = [r \in Ids |-> "null"]
  /\ completed_at = [r \in Ids |-> FALSE]
  /\ search_results = [r \in Ids |-> 0]
  /\ analysis_results = [r \in Ids |-> 0]
  /\ lock = [r \in Ids |-> NoOne]
  /\ \E topic \in {"none", "search-queue", "ai-queue"} :
       /\ searchQ = [r \in Ids |->
            IF r = StaleId /\ topic = "search-queue" THEN "queued" ELSE "none"]
       /\ analyzeQ = [r \in Ids |->
            IF r = StaleId /\ topic = "ai-queue" THEN "queued" ELSE "none"]
       /\ ipc = [r \in Requests |-> IF topic = "none" THEN "start" ELSE "none"]
       /\ \E p \in Phases :
            phase = [r \in Ids |->
              IF r = StaleId /\ topic = "ai-queue" THEN p ELSE "none"]
  /\ sdeliv = [r \in Ids |-> 0]
  /\ adeliv = [r \in Ids |-> 0]
  /\ spc = [i \in SearchWorkers |-> "idle"]
  /\ scur = [i \in SearchWorkers |-> NoRequest]
  /\ sseen = [i \in SearchWorkers |-> "-"]
  /\ sown = [i \in SearchWorkers |-> FALSE]
  /\ scrawl = [i \in SearchWorkers |-> NoCrawl]
  /\ apc = [j \in AIWorkers |-> "idle"]
  /\ acur = [j \in AIWorkers |-> NoRequest]
  /\ aseen = [j \in AIWorkers |-> "-"]
  /\ aown = [j \in AIWorkers |-> FALSE]
  /\ sclaims = [r \in Ids |-> 0]
  /\ aclaims = [r \in Ids |-> 0]

\* ------------------------------------------------------------ the Ledger
\* The lock query as a plain SELECT, which takes no notice of row locks.
LockQueryUnlocked(r, expected) == status[r] = expected

\* SELECT ... WHERE id = :request_id AND status = :expected FOR UPDATE SKIP
\* LOCKED returns the row iff it is in the expected status and unlocked.
LockQuery(r, expected) == status[r] = expected /\ lock[r] = NoOne

\* What the not-claimed branch finds with db.query(Request).first(): the row's
\* status, which is the expected one when another worker holds the lock.
Lookup(r, expected) ==
  IF status[r] = expected THEN "locked" ELSE status[r]

\* An UPDATE of the row (or an INSERT of a child row, which locks the parent
\* key) waits while another transaction holds the row lock.
CanWrite(r, who) == lock[r] \in {NoOne, who}

\* ---------------------------------------------------------------- the bus
\* KafkaProducerWrapper.send_data: producer.send() buffers the record.
send_data(q, r) == [q EXCEPT ![r] = "sending"]

\* consumer.commit(): the offset of the task is advanced.
commit_offset(q, r) == [q EXCEPT ![r] = "committed"]

\* The producer's sender thread hands a buffered record to the topic.
BusDeliver ==
  \/ \E r \in Ids :
       /\ searchQ[r] = "sending"
       /\ searchQ' = [searchQ EXCEPT ![r] = "queued"]
       /\ UNCHANGED <<elsewhere, ledger, lock, analyzeQ, sdeliv, adeliv, ipc, sworker, aworker, hist>>
  \/ \E r \in Ids :
       /\ analyzeQ[r] = "sending"
       /\ analyzeQ' = [analyzeQ EXCEPT ![r] = "queued"]
       /\ UNCHANGED <<elsewhere, ledger, lock, searchQ, sdeliv, adeliv, ipc, sworker, aworker, hist>>

\* The send fails after send_data returned: _on_error only prints.
BusSendError ==
  \/ \E r \in Ids :
       /\ searchQ[r] = "sending"
       /\ searchQ' = [searchQ EXCEPT ![r] = "lost"]
       /\ UNCHANGED <<elsewhere, ledger, lock, analyzeQ, sdeliv, adeliv, ipc, sworker, aworker, hist>>
  \/ \E r \in Ids :
       /\ analyzeQ[r] = "sending"
       /\ analyzeQ' = [analyzeQ EXCEPT ![r] = "lost"]
       /\ UNCHANGED <<elsewhere, ledger, lock, searchQ, sdeliv, adeliv, ipc, sworker, aworker, hist>>

\* ----------------------------------------------------------------- intake
\* analyze(): db.add(Request(status="pending")); db.commit()
IntakeInsert(r) ==
  /\ ipc[r] = "start"
  /\ status' = [status EXCEPT ![r] = "pending"]
  /\ ipc' = [ipc EXCEPT ![r] = "publish"]
  /\ UNCHANGED <<elsewhere, error_message, completed_at, search_results, analysis_results,
                 lock, bus, sworker, aworker, hist>>

\* analyze(): producer.send_data("search-queue", ...), which returns or raises
\* (the request then answers with an error and the row stays pending).
IntakePublish(r) ==
  /\ ipc[r] = "publish"
  /\ \/ /\ searchQ' = send_data(searchQ, r)
        /\ ipc' = [ipc EXCEPT ![r] = "update"]
     \/ /\ ipc' = [ipc EXCEPT ![r] = "done"]
        /\ UNCHANGED searchQ
  /\ UNCHANGED <<elsewhere, ledger, lock, analyzeQ, sdeliv, adeliv, sworker, aworker, hist>>

\* analyze(): db_request.status = "searching"; db.commit()
IntakeUpdate(r) ==
  /\ ipc[r] = "update"
  /\ CanWrite(r, NoOne)
  /\ status' = [status EXCEPT ![r] = "searching"]
  /\ ipc' = [ipc EXCEPT ![r] = "done"]
  /\ UNCHANGED <<elsewhere, error_message, completed_at, search_results, analysis_results,
                 lock, bus, sworker, aworker, hist>>

\* ---------------------------------------------------------- search worker
\* for message in consumer.get_messages(): a task whose offset is not yet
\* committed is handed to a replica (again, after a rebalance or a restart).
SearchReceive(i, r) ==
  /\ spc[i] = "idle"
  /\ searchQ[r] = "queued"
  /\ sdeliv[r] < MaxDeliveries
  /\ sdeliv' = [sdeliv EXCEPT ![r] = @ + 1]
  /\ spc' = [spc EXCEPT ![i] = "lock"]
  /\ scur' = [scur EXCEPT ![i] = r]
  /\ UNCHANGED <<elsewhere, ledger, lock, searchQ, analyzeQ, adeliv, ipc, sseen, sown, scrawl, aworker, hist>>

\* result = db.execute(lock_query).fetchone(); if not result: existing = ...
SearchLock(i) ==
  /\ spc[i] = "lock"
  /\ IF LockQuery(scur[i], "searching")
       THEN /\ lock' = [lock EXCEPT ![scur[i]] = i]
            /\ sseen' = [sseen EXCEPT ![i] = "won"]
            /\ spc' = [spc EXCEPT ![i] = "claim"]
       ELSE /\ sseen' = [sseen EXCEPT ![i] = Lookup(scur[i], "searching")]
            /\ spc' = [spc EXCEPT ![i] = "lost"]
            /\ UNCHANGED lock
  /\ UNCHANGED <<elsewhere, ledger, bus, ipc, scur, sown, scrawl, aworker, hist>>

\* db_request.status = 'processing_search'; db.commit()
SearchClaim(i) ==
  /\ spc[i] = "claim"
  /\ status' = [status EXCEPT ![scur[i]] = "processing_search"]
  /\ lock' = [lock EXCEPT ![scur[i]] = NoOne]
  /\ sown' = [sown EXCEPT ![i] = TRUE]
  /\ sclaims' = [sclaims EXCEPT ![scur[i]] = @ + 1]
  /\ spc' = [spc EXCEPT ![i] = "search"]
  /\ UNCHANGED <<elsewhere, error_message, completed_at, search_results, analysis_results,
                 bus, ipc, scur, sseen, scrawl, aworker, aclaims>>

\* The worker is done with its message and waits for the next one.
SearchContinue(i) ==
  /\ spc' = [spc EXCEPT ![i] = "idle"]
  /\ scur' = [scur EXCEPT ![i] = NoRequest]
  /\ sseen' = [sseen EXCEPT ![i] = "-"]
  /\ sown' = [sown EXCEPT ![i] = FALSE]
  /\ scrawl' = [scrawl EXCEPT ![i] = NoCrawl]

\* consumer.consumer.commit() returns, and the loop goes on; or it raises
\* into the except handler.
SearchCommitOrRaise(i) ==
  \/ /\ searchQ' = commit_offset(searchQ, scur[i])
     /\ SearchContinue(i)
  \/ /\ spc' = [spc EXCEPT ![i] = "handler"]
     /\ UNCHANGED <<searchQ, scur, sseen, sown, scrawl>>

\* The not-claimed branch: consumer.consumer.commit(); continue
SearchLost(i) ==
  /\ spc[i] = "lost"
  /\ SearchCommitOrRaise(i)
  /\ UNCHANGED <<elsewhere, ledger, lock, analyzeQ, sdeliv, adeliv, ipc, aworker, hist>>

\* The success path's consumer.consumer.commit()
SearchCommit(i) ==
  /\ spc[i] = "commit"
  /\ SearchCommitOrRaise(i)
  /\ UNCHANGED <<elsewhere, ledger, lock, analyzeQ, sdeliv, adeliv, ipc, aworker, hist>>

\* except Exception as e: the row of request_id, when there is one, is set
\* to failed with str(e).  The offset is not committed here.  The handler's
\* own Ledger calls are not guarded: when one raises, the exception leaves
\* the for loop and process_search ends.
SearchHandler(i) ==
  /\ spc[i] = "handler"
  /\ \/ /\ CanWrite(scur[i], i)
        /\ IF status[scur[i]] # "absent"
             THEN /\ status' = [status EXCEPT ![scur[i]] = "failed"]
                  /\ error_message' = [error_message EXCEPT ![scur[i]] = "exception"]
             ELSE UNCHANGED <<status, error_message>>
        /\ SearchContinue(i)
     \/ /\ spc' = [spc EXCEPT ![i] = "ended"]
        /\ scur' = [scur EXCEPT ![i] = NoRequest]
        /\ sseen' = [sseen EXCEPT ![i] = "-"]
        /\ sown' = [sown EXCEPT ![i] = FALSE]
        /\ scrawl' = [scrawl EXCEPT ![i] = NoCrawl]
        /\ UNCHANGED <<status, error_message>>
  /\ UNCHANGED <<elsewhere, completed_at, search_results, analysis_results, lock, bus, ipc,
                 aworker, hist>>

\* The worker process dies while it handles a message: its open transaction
\* is rolled back, its row lock released, and a restarted replica is idle
\* (so is a replica restarted after process_search ended).
SearchCrash(i) ==
  /\ spc[i] # "idle"
  /\ lock' = [r \in Ids |-> IF lock[r] = i THEN NoOne ELSE lock[r]]
  /\ SearchContinue(i)
  /\ UNCHANGED <<elsewhere, ledger, bus, ipc, aworker, hist>>

\* The filter of search_and_crawl passing every result.
HasContentOrNot(r) == TRUE

\* search_and_crawl(topic, max_results): the results it returns, each with
\* the rank of its hit and its content.  An exception of the search engine
\* leaves results empty; an exception of fetch or extract leaves that
\* result's content empty; the results with content are returned, or the
\* first three when none has any.
HasContent(r) == r.content # ""

search_and_crawl(c) ==
  LET results ==
        IF c.engine = "raise" THEN <<>>
        ELSE [k \in 1 .. Len(c.hits) |->
                [rank |-> k,
                 content |-> IF c.hits[k] = "content" THEN "content" ELSE ""]]
      valid_results == SelectSeq(results, HasContent)
  IN IF valid_results # <<>> THEN valid_results
     ELSE SubSeq(results, 1, IF Len(results) < AtLeast THEN Len(results) ELSE AtLeast)

\* search_results_data = search_and_crawl(topic, max_results=8)
SearchCrawl(i) ==
  /\ spc[i] = "search"
  /\ \E c \in CrawlInputs : scrawl' = [scrawl EXCEPT ![i] = c]
  /\ spc' = [spc EXCEPT ![i] = "store"]
  /\ UNCHANGED <<elsewhere, ledger, lock, bus, ipc, scur, sseen, sown, aworker, hist>>

\* The test for an empty result set never taken.
NoResultsNever(data) == FALSE

\* if not search_results_data
NoResults(data) == data = <<>>

\* if not search_results_data: the request is failed; otherwise the rows are
\* added and committed.
SearchStore(i) ==
  /\ spc[i] = "store"
  /\ CanWrite(scur[i], i)
  /\ LET search_results_data == search_and_crawl(scrawl[i])
     IN IF NoResults(search_results_data)
          THEN /\ status' = [status EXCEPT ![scur[i]] = "failed"]
               /\ error_message' =
                    [error_message EXCEPT ![scur[i]] = "No search results found"]
               /\ sown' = [sown EXCEPT ![i] = FALSE]
               /\ spc' = [spc EXCEPT ![i] = "commit_failed"]
               /\ UNCHANGED search_results
          ELSE /\ search_results' =
                    [search_results EXCEPT ![scur[i]] = @ + Len(search_results_data)]
               /\ spc' = [spc EXCEPT ![i] = "advance"]
               /\ UNCHANGED <<status, error_message, sown>>
  /\ scrawl' = [scrawl EXCEPT ![i] = NoCrawl]
  /\ UNCHANGED <<elsewhere, completed_at, analysis_results, lock, bus, ipc, scur, sseen,
                 aworker, hist>>

\* After the empty result set: consumer.consumer.commit(); continue
SearchCommitFailed(i) ==
  /\ spc[i] = "commit_failed"
  /\ SearchCommitOrRaise(i)
  /\ UNCHANGED <<elsewhere, ledger, lock, analyzeQ, sdeliv, adeliv, ipc, aworker, hist>>

\* db_request.status = "analyzing"; db.commit()
SearchAdvance(i) ==
  /\ spc[i] = "advance"
  /\ CanWrite(scur[i], i)
  /\ status' = [status EXCEPT ![scur[i]] = "analyzing"]
  /\ sown' = [sown EXCEPT ![i] = FALSE]
  /\ spc' = [spc EXCEPT ![i] = "publish"]
  /\ UNCHANGED <<elsewhere, error_message, completed_at, search_results, analysis_results,
                 lock, bus, ipc, scur, sseen, scrawl, aworker, hist>>

\* producer.send_data(topic=settings.KAFKA_TOPIC_AI, ...) returns or raises.
SearchPublish(i) ==
  /\ spc[i] = "publish"
  /\ \/ /\ analyzeQ' = send_data(analyzeQ, scur[i])
        /\ spc' = [spc EXCEPT ![i] = "commit"]
     \/ /\ spc' = [spc EXCEPT ![i] = "handler"]
        /\ UNCHANGED analyzeQ
  /\ UNCHANGED <<elsewhere, ledger, lock, searchQ, sdeliv, adeliv, ipc, scur, sseen, sown,
                 scrawl, aworker, hist>>

process_search(i) ==
  \/ \E r \in Ids : SearchReceive(i, r)
  \/ SearchLock(i)
  \/ SearchClaim(i)
  \/ SearchLost(i)
  \/ SearchCrawl(i)
  \/ SearchStore(i)
  \/ SearchCommitFailed(i)
  \/ SearchAdvance(i)
  \/ SearchPublish(i)
  \/ SearchCommit(i)
  \/ SearchHandler(i)

\* -------------------------------------------------------- analysis worker
\* The phase the worker goes by, without the fallback of generate_queries.
PhaseHandledAsGiven(p) == IF p = "none" THEN "analyze" ELSE p

\* phase = task.get("phase", "analyze"); if phase == "generate_queries":
\* phase = "analyze"
PhaseHandled(p) == IF p \in {"none", "generate_queries"} THEN "analyze" ELSE p

\* for message in consumer.get_messages(): a task whose offset is not yet
\* committed is handed to a replica (again, after a rebalance or a restart).
\* if phase == "analyze": the claim follows; with any other phase the body
\* does nothing and the loop goes on to the next message.
AIReceive(j, r) ==
  /\ apc[j] = "idle"
  /\ analyzeQ[r] = "queued"
  /\ adeliv[r] < MaxDeliveries
  /\ adeliv' = [adeliv EXCEPT ![r] = @ + 1]
  /\ IF PhaseHandled(phase[r]) = "analyze"
       THEN /\ apc' = [apc EXCEPT ![j] = "lock"]
            /\ acur' = [acur EXCEPT ![j] = r]
       ELSE UNCHANGED <<apc, acur>>
  /\ UNCHANGED <<elsewhere, ledger, lock, searchQ, analyzeQ, sdeliv, ipc, aseen, aown, sworker, hist>>

\* result = db.execute(lock_query).fetchone(); if not result: existing = ...
AILock(j) ==
  /\ apc[j] = "lock"
  /\ IF LockQuery(acur[j], "analyzing")
       THEN /\ lock' = [lock EXCEPT ![acur[j]] = j]
            /\ aseen' = [aseen EXCEPT ![j] = "won"]
            /\ apc' = [apc EXCEPT ![j] = "claim"]
       ELSE /\ aseen' = [aseen EXCEPT ![j] = Lookup(acur[j], "analyzing")]
            /\ apc' = [apc EXCEPT ![j] = "lost"]
            /\ UNCHANGED lock
  /\ UNCHANGED <<elsewhere, ledger, bus, ipc, acur, aown, sworker, hist>>

\* db_request.status = 'processing_analysis'; db.commit()
AIClaim(j) ==
  /\ apc[j] = "claim"
  /\ status' = [status EXCEPT ![acur[j]] = "processing_analysis"]
  /\ lock' = [lock EXCEPT ![acur[j]] = NoOne]
  /\ aown' = [aown EXCEPT ![j] = TRUE]
  /\ aclaims' = [aclaims EXCEPT ![acur[j]] = @ + 1]
  /\ apc' = [apc EXCEPT ![j] = "analyze"]
  /\ UNCHANGED <<elsewhere, error_message, completed_at, search_results, analysis_results,
                 bus, ipc, acur, aseen, sworker, sclaims>>

\* The worker is done with its message and waits for the next one.
AIContinue(j) ==
  /\ apc' = [apc EXCEPT ![j] = "idle"]
  /\ acur' = [acur EXCEPT ![j] = NoRequest]
  /\ aseen' = [aseen EXCEPT ![j] = "-"]
  /\ aown' = [aown EXCEPT ![j] = FALSE]

\* consumer.consumer.commit() returns, and the loop goes on; or it raises
\* into the except handler.
AICommitOrRaise(j) ==
  \/ /\ analyzeQ' = commit_offset(analyzeQ, acur[j])
     /\ AIContinue(j)
  \/ /\ apc' = [apc EXCEPT ![j] = "handler"]
     /\ UNCHANGED <<analyzeQ, acur, aseen, aown>>

\* The not-claimed branch: consumer.consumer.commit(); continue
AILost(j) ==
  /\ apc[j] = "lost"
  /\ AICommitOrRaise(j)
  /\ UNCHANGED <<elsewhere, ledger, lock, searchQ, sdeliv, adeliv, ipc, sworker, hist>>

\* The success path's consumer.consumer.commit()
AICommit(j) ==
  /\ apc[j] = "commit"
  /\ AICommitOrRaise(j)
  /\ UNCHANGED <<elsewhere, ledger, lock, searchQ, sdeliv, adeliv, ipc, sworker, hist>>

\* except Exception as e: the row of request_id, when there is one, is set
\* to failed with str(e).  The offset is not committed here.  When one of
\* the handler's Ledger calls raises, except: pass leaves the row as it is.
AIHandler(j) ==
  /\ apc[j] = "handler"
  /\ \/ /\ CanWrite(acur[j], j)
        /\ IF status[acur[j]] # "absent"
             THEN /\ status' = [status EXCEPT ![acur[j]] = "failed"]
                  /\ error_message' = [error_message EXCEPT ![acur[j]] = "exception"]
             ELSE UNCHANGED <<status, error_message>>
     \/ UNCHANGED <<status, error_message>>
  /\ AIContinue(j)
  /\ UNCHANGED <<elsewhere, completed_at, search_results, analysis_results, lock, bus, ipc,
                 sworker, hist>>

\* The worker process dies while it handles a message: its open transaction
\* is rolled back, its row lock released, and a restarted replica is idle.
AICrash(j) ==
  /\ apc[j] # "idle"
  /\ lock' = [r \in Ids |-> IF lock[r] = j THEN NoOne ELSE lock[r]]
  /\ AIContinue(j)
  /\ UNCHANGED <<elsewhere, ledger, bus, ipc, sworker, hist>>

\* analyze_search_results(...) raises (no search results, or the summarizer
\* fails), or returns the summary; then db.add(AnalysisResult(...)),
\* status = "completed", completed_at = utcnow() and one db.commit().
AIAnalyze(j) ==
  /\ apc[j] = "analyze"
  /\ \/ /\ search_results[acur[j]] > 0
        /\ CanWrite(acur[j], j)
        /\ analysis_results' = [analysis_results EXCEPT ![acur[j]] = @ + 1]
        /\ status' = [status EXCEPT ![acur[j]] = "completed"]
        /\ completed_at' = [completed_at EXCEPT ![acur[j]] = TRUE]
        /\ aown' = [aown EXCEPT ![j] = FALSE]
        /\ apc' = [apc EXCEPT ![j] = "commit"]
     \/ /\ apc' = [apc EXCEPT ![j] = "handler"]
        /\ UNCHANGED <<analysis_results, status, completed_at, aown>>
  /\ UNCHANGED <<elsewhere, error_message, search_results, lock, bus, ipc, sworker, acur,
                 aseen, hist>>

process_ai(j) ==
  \/ \E r \in Ids : AIReceive(j, r)
  \/ AILock(j)
  \/ AIClaim(j)
  \/ AILost(j)
  \/ AIAnalyze(j)
  \/ AICommit(j)
  \/ AIHandler(j)

analyze(r) == IntakeInsert(r) \/ IntakePublish(r) \/ IntakeUpdate(r)

Next ==
  \/ \E r \in Requests : analyze(r)
  \/ BusDeliver
  \/ BusSendError
  \/ \E i \in SearchWorkers : process_search(i)
  \/ \E j \in AIWorkers : process_ai(j)

Spec == Init /\ [][Next]_vars

\* The same system with worker processes that may die at any point.
Crash ==
  \/ \E i \in SearchWorkers : SearchCrash(i)
  \/ \E j \in AIWorkers : AICrash(j)

NextCrash == Next \/ Crash

SpecCrash == Init /\ [][NextCrash]_vars

\* The analysis stage on its own: the analysis workers started on a Ledger
\* where the request is analyzing, its analyze task is on the topic (with
\* any phase field) and the search task is done.  The request has any number of SearchResult rows,
\* none included: the search worker never leaves such a request, but
\* analyze_search_results reads the rows anew and provides for finding none.
InitAnalysis ==
  /\ FoldingIdle
  /\ ConsumingIdle
  /\ StartupIdle
  /\ CallingIdle
  /\ \E p \in Phases : phase = [r \in Ids |-> IF r \in Requests THEN p ELSE "none"]
  /\ status = [r \in Ids |-> IF r \in Requests THEN "analyzing" ELSE "absent"]
  /\ error_message = [r \in Ids |-> "null"]
  /\ completed_at = [r \in Ids |-> FALSE]
  /\ \E n \in 0 .. MaxResults :
       search_results = [r \in Ids |-> IF r \in Requests THEN n ELSE 0]
  /\ analysis_results = [r \in Ids |-> 0]
  /\ lock = [r \in Ids |-> NoOne]
  /\ searchQ = [r \in Ids |-> IF r \in Requests THEN "committed" ELSE "none"]
  /\ analyzeQ = [r \in Ids |-> IF r \in Requests THEN "queued" ELSE "none"]
  /\ ipc = [r \in Requests |-> "done"]
  /\ sdeliv = [r \in Ids |-> IF r \in Requests THEN 1 ELSE 0]
  /\ adeliv = [r \in Ids |-> 0]
  /\ spc = [i \in SearchWorkers |-> "idle"]
  /\ scur = [i \in SearchWorkers |-> NoRequest]
  /\ sseen = [i \in SearchWorkers |-> "-"]
  /\ sown = [i \in SearchWorkers |-> FALSE]
  /\ scrawl = [i \in SearchWorkers |-> NoCrawl]
  /\ apc = [j \in AIWorkers |-> "idle"]
  /\ acur = [j \in AIWorkers |-> NoRequest]
  /\ aseen = [j \in AIWorkers |-> "-"]
  /\ aown = [j \in AIWorkers |-> FALSE]
  /\ sclaims = [r \in Ids |-> IF r \in Requests THEN 1 ELSE 0]
  /\ aclaims = [r \in Ids |-> 0]

NextAnalysis == \E j \in AIWorkers : process_ai(j)

SpecAnalysis == InitAnalysis /\ [][NextAnalysis]_vars

\* ------------------------------------------------ analyze_search_results
\* max_model_len of the configurations select_model_by_vram chooses from.
ModelLens == {2048, 4096, 8192}

\* Token counts of the text items tried: at and just above each context
\* limit MAX_MODEL_LEN - RESERVED_TOKENS, halves of a chunk, and above the
\* chunk size.
ItemTokens == {248, 249, 1500, 1600, 2296, 2297, 3001, 4000, 6392, 6393}

\* A text item of t tokens, as content_items holds it (three characters to
\* two tokens, which keeps the content under its cap of 10000 characters).
TextItem(t) == [tokens |-> t, chars |-> t + t \div 2, marker |-> FALSE]

\* Token counts of a chunk summary tried: the shortest and max_tokens.
SummaryTokens == {1, MapMaxTokens}

RECURSIVE SumTokens(_)
SumTokens(items) ==
  IF items = <<>> THEN 0 ELSE Head(items).tokens + SumTokens(Tail(items))

\* len(tokenizer.encode("\n---\n".join(items))): the tokens of the items and
\* of the separators between them.
JoinTokens(items) ==
  IF items = <<>> THEN 0
  ELSE SumTokens(items) + LiteralTokens * (Len(items) - 1)

CeilDiv(a, b) == (a + b - 1) \div b

\* ratio = MAP_CHUNK_SIZE / item_tokens; cut_len = int(len(item) * ratio);
\* item = item[:cut_len] + "...(truncated)".  The cut text has its share of
\* the item's tokens, the marker adds its own.
Truncate(item) ==
  LET cut_len == (item.chars * MAP_CHUNK_SIZE) \div item.tokens
  IN [tokens |-> CeilDiv(cut_len * item.tokens, item.chars) + LiteralTokens,
      chars |-> cut_len + MarkerChars,
      marker |-> TRUE]

\* The comparison of the strategy selection with < for <=.
DirectFitsBelow(t, limit) == t < limit

\* if total_tokens <= MAX_CONTEXT_TOKENS
DirectFits(t, limit) == t <= limit

\* The chunk test with >= for >.
NewChunkAtLimit(tokens, item_tokens) == tokens + item_tokens >= MAP_CHUNK_SIZE

\* if current_tokens + item_tokens > MAP_CHUNK_SIZE
NewChunk(tokens, item_tokens) == tokens + item_tokens > MAP_CHUNK_SIZE

\* The map prompts numbered from 0.
MapPromptsFromZero(cs) ==
  [i \in 1 .. Len(cs) |->
     [index |-> i - 1, of |-> Len(cs), chunk |-> cs[i],
      tokens |-> LiteralTokens + JoinTokens(cs[i])]]

\* for i, chunk in enumerate(chunks, 1): the prompt "Chunk i/K" around the
\* chunk, inside the chat template.
MapPrompts(cs) ==
  [i \in 1 .. Len(cs) |->
     [index |-> i, of |-> Len(cs), chunk |-> cs[i],
      tokens |-> LiteralTokens + JoinTokens(cs[i])]]

\* The tokens of final_context: the joined items, or the labelled chunk
\* summaries and the separators between them.
ContextTokens(context) ==
  IF context.kind = "items" THEN JoinTokens(context.parts)
  ELSE SumTokens([i \in 1 .. Len(context.parts) |->
                    [tokens |-> LiteralTokens + context.parts[i].summary.tokens]])
         + LiteralTokens * (Len(context.parts) - 1)

\* No request, no task and every worker between two messages.
CoreIdle ==
  /\ status = [r \in Ids |-> "absent"]
  /\ error_message = [r \in Ids |-> "null"]
  /\ completed_at = [r \in Ids |-> FALSE]
  /\ search_results = [r \in Ids |-> 0]
  /\ analysis_results = [r \in Ids |-> 0]
  /\ lock = [r \in Ids |-> NoOne]
  /\ searchQ = [r \in Ids |-> "none"]
  /\ analyzeQ = [r \in Ids |-> "none"]
  /\ ipc = [r \in Requests |-> "none"]
  /\ sdeliv = [r \in Ids |-> 0]
  /\ adeliv = [r \in Ids |-> 0]
  /\ spc = [i \in SearchWorkers |-> "idle"]
  /\ scur = [i \in SearchWorkers |-> NoRequest]
  /\ sseen = [i \in SearchWorkers |-> "-"]
  /\ sown = [i \in SearchWorkers |-> FALSE]
  /\ scrawl = [i \in SearchWorkers |-> NoCrawl]
  /\ apc = [j \in AIWorkers |-> "idle"]
  /\ acur = [j \in AIWorkers |-> NoRequest]
  /\ aseen = [j \in AIWorkers |-> "-"]
  /\ aown = [j \in AIWorkers |-> FALSE]
  /\ sclaims = [r \in Ids |-> 0]
  /\ aclaims = [r \in Ids |-> 0]
  /\ phase = [r \in Ids |-> "none"]

\* analyze_search_results is called for a request with one or more
\* SearchResult rows, under a model of any supported context length.
InitFold ==
  /\ CoreIdle
  /\ ConsumingIdle
  /\ StartupIdle
  /\ CallingIdle
  /\ fpc = "start"
  /\ max_model_len \in ModelLens
  /\ \E ts \in SeqsUpTo(ItemTokens, MaxItems) \ {<<>>} :
       content_items = [k \in 1 .. Len(ts) |-> TextItem(ts[k])]
  /\ total_tokens = 0
  /\ path = "none"
  /\ chunks = <<>>
  /\ current_chunk = <<>>
  /\ current_tokens = 0
  /\ next_item = 0
  /\ calls = <<>>
  /\ intermediate_summaries = <<>>
  /\ final_context = <<>>

\* full_context_str = "\n---\n".join(content_items);
\* total_tokens = len(tokenizer.encode(full_context_str))
FoldTotal ==
  /\ fpc = "start"
  /\ total_tokens' = JoinTokens(content_items)
  /\ fpc' = "select"
  /\ UNCHANGED <<core, phase, consuming, startup, calling, max_model_len, content_items, path,
                 chunks, current_chunk, current_tokens, next_item, calls,
                 intermediate_summaries, final_context>>

\* MAX_CONTEXT_TOKENS = MAX_MODEL_LEN - RESERVED_TOKENS
MAX_CONTEXT_TOKENS == max_model_len - RESERVED_TOKENS

\* Strategy selection: the direct path takes full_context_str as it is, the
\* other path starts the chunking loop.
FoldSelect ==
  /\ fpc = "select"
  /\ IF DirectFits(total_tokens, MAX_CONTEXT_TOKENS)
       THEN /\ path' = "direct"
            /\ final_context' = [kind |-> "items", parts |-> content_items]
            /\ fpc' = "final"
            /\ UNCHANGED next_item
       ELSE /\ path' = "fold"
            /\ next_item' = 1
            /\ fpc' = "chunk"
            /\ UNCHANGED final_context
  /\ UNCHANGED <<core, phase, consuming, startup, calling, max_model_len, content_items,
                 total_tokens, chunks, current_chunk, current_tokens, calls,
                 intermediate_summaries>>

\* for item in content_items: an item above the chunk size is truncated and
\* counted as MAP_CHUNK_SIZE; the item opens a new chunk or joins the
\* current one.
FoldChunkItem ==
  /\ fpc = "chunk"
  /\ next_item <= Len(content_items)
  /\ LET given == content_items[next_item]
         huge == given.tokens > MAP_CHUNK_SIZE
         cut == IF huge THEN Truncate(given) ELSE given
         item == [id |-> next_item, tokens |-> cut.tokens, chars |-> cut.chars,
                  marker |-> cut.marker]
         item_tokens == IF huge THEN MAP_CHUNK_SIZE ELSE given.tokens
     IN IF NewChunk(current_tokens, item_tokens)
          THEN /\ chunks' = Append(chunks, current_chunk)
               /\ current_chunk' = <<item>>
               /\ current_tokens' = item_tokens
          ELSE /\ current_chunk' = Append(current_chunk, item)
               /\ current_tokens' = current_tokens + item_tokens
               /\ UNCHANGED chunks
  /\ next_item' = next_item + 1
  /\ UNCHANGED <<core, phase, consuming, startup, calling, fpc, max_model_len, content_items,
                 total_tokens, path, calls, intermediate_summaries, final_context>>

\* if current_chunk: chunks.append("\n---\n".join(current_chunk))
FoldChunkEnd ==
  /\ fpc = "chunk"
  /\ next_item > Len(content_items)
  /\ chunks' = IF current_chunk # <<>> THEN Append(chunks, current_chunk) ELSE chunks
  /\ fpc' = "map"
  /\ UNCHANGED <<core, phase, consuming, startup, calling, max_model_len, content_items,
                 total_tokens, path, current_chunk, current_tokens, next_item,
                 calls, intermediate_summaries, final_context>>

\* map_outputs = llm.generate(map_prompts, map_params): one call with all
\* map prompts; the outputs come in the order of the prompts, each of at
\* most max_tokens tokens.
FoldMap ==
  /\ fpc = "map"
  /\ calls' = Append(calls, [prompts |-> MapPrompts(chunks), max_tokens |-> MapMaxTokens])
  /\ \E out \in [1 .. Len(chunks) -> SummaryTokens] :
       intermediate_summaries' =
         [i \in 1 .. Len(chunks) |-> [answers |-> i, tokens |-> out[i]]]
  /\ fpc' = "reduce"
  /\ UNCHANGED <<core, phase, consuming, startup, calling, max_model_len, content_items,
                 total_tokens, path, chunks, current_chunk, current_tokens,
                 next_item, final_context>>

\* combined_summaries = "\n\n---\n\n".join(f"Summary Part {i+1}:\n{s}" ...);
\* final_context = combined_summaries
FoldReduce ==
  /\ fpc = "reduce"
  /\ final_context' =
       [kind |-> "summaries",
        parts |-> [i \in 1 .. Len(intermediate_summaries) |->
                     [label |-> i, summary |-> intermediate_summaries[i]]]]
  /\ fpc' = "final"
  /\ UNCHANGED <<core, phase, consuming, startup, calling, max_model_len, content_items,
                 total_tokens, path, chunks, current_chunk, current_tokens,
                 next_item, calls, intermediate_summaries>>

\* outputs = llm.generate([prompt], sampling_params): the final prompt holds
\* final_context inside the chat template.
FoldFinal ==
  /\ fpc = "final"
  /\ calls' = Append(calls,
       [prompts |-> <<[context |-> final_context,
                       tokens |-> LiteralTokens + ContextTokens(final_context)]>>,
        max_tokens |-> FinalMaxTokens])
  /\ fpc' = "done"
  /\ UNCHANGED <<core, phase, consuming, startup, calling, max_model_len, content_items,
                 total_tokens, path, chunks, current_chunk, current_tokens,
                 next_item, intermediate_summaries, final_context>>

analyze_search_results ==
  \/ FoldTotal
  \/ FoldSelect
  \/ FoldChunkItem
  \/ FoldChunkEnd
  \/ FoldMap
  \/ FoldReduce
  \/ FoldFinal

SpecFold == InitFold /\ [][analyze_search_results]_vars

\* ------------------------------------ KafkaConsumerWrapper.get_messages
\* get_messages has set _stop_event = False, installed the handlers for
\* SIGINT and SIGTERM and entered `for message in self.consumer`, where it
\* waits for the next message of the topic; producers are still running.
InitConsumer ==
  /\ CoreIdle
  /\ FoldingIdle
  /\ StartupIdle
  /\ CallingIdle
  /\ cpc = "waiting"
  /\ stop_event = FALSE
  /\ backlog = 0
  /\ arrived = 0
  /\ yielded = 0
  /\ producing = TRUE

\* A producer publishes a message to the topic.
Arrive ==
  /\ producing
  /\ arrived < MaxArrivals
  /\ arrived' = arrived + 1
  /\ backlog' = backlog + 1
  /\ UNCHANGED <<core, phase, folding, startup, calling, cpc, stop_event, yielded, producing>>

\* No message is published to the topic from now on.
ProducersStop ==
  /\ producing
  /\ producing' = FALSE
  /\ UNCHANGED <<core, phase, folding, startup, calling, cpc, stop_event, backlog, arrived, yielded>>

\* signal_handler: SIGINT or SIGTERM sets _stop_event and returns to
\* whatever the process was doing.
signal_handler ==
  /\ cpc \in {"waiting", "processing"}
  /\ ~stop_event
  /\ stop_event' = TRUE
  /\ UNCHANGED <<core, phase, folding, startup, calling, cpc, backlog, arrived, yielded, producing>>

\* The consumer's iterator returns the next message: with _stop_event set
\* the loop breaks and the generator ends, otherwise the message is yielded
\* to the worker's loop body.
Fetch ==
  /\ cpc = "waiting"
  /\ backlog > 0
  /\ backlog' = backlog - 1
  /\ IF stop_event
       THEN /\ cpc' = "finished"
            /\ UNCHANGED yielded
       ELSE /\ cpc' = "processing"
            /\ yielded' = yielded + 1
  /\ UNCHANGED <<core, phase, folding, startup, calling, stop_event, arrived, producing>>

\* The worker's loop body is done with the message and asks the generator
\* for the next one: the generator resumes after `yield` and goes back to
\* the iterator.
Resume ==
  /\ cpc = "processing"
  /\ cpc' = "waiting"
  /\ UNCHANGED <<core, phase, folding, startup, calling, stop_event, backlog, arrived, yielded, producing>>

get_messages == Fetch \/ Resume

NextConsumer ==
  \/ Arrive
  \/ ProducersStop
  \/ signal_handler
  \/ get_messages

SpecConsumer == InitConsumer /\ [][NextConsumer]_vars

\* ------------------------------------------- _create_producer_with_retry
\* The delays a connection loop is called with (initial_delay; 2 by default).
InitialDelays == {1, 2, 3}

\* What one call of KafkaProducer(...) / KafkaConsumer(...) does: it returns
\* the client, raises errors.NoBrokersAvailable, or raises anything else.
ConnectOutcomes == {"connected", "NoBrokersAvailable", "Exception"}

\* The wrapper's __init__ calls the loop: attempt = 0, delay = initial_delay.
InitStartup ==
  /\ CoreIdle
  /\ FoldingIdle
  /\ ConsumingIdle
  /\ CallingIdle
  /\ kpc = "loop"
  /\ max_retries \in 0 .. MaxRetries
  /\ initial_delay \in InitialDelays
  /\ attempt = 0
  /\ delay = initial_delay
  /\ tried = 0
  /\ slept = <<>>
  /\ last = "none"

\* The backoff with delay += 2 for delay *= 2.
NextDelayAdded(d) == d + 2

\* delay *= 2
NextDelay(d) == d * 2

\* One round of `while attempt < max_retries`: the constructor is called;
\* on success the client is returned; on NoBrokersAvailable the loop counts
\* the attempt, sleeps for delay and doubles it; on any other exception
\* sys.exit(1).
ConnectAttempt ==
  /\ kpc = "loop"
  /\ attempt < max_retries
  /\ tried' = tried + 1
  /\ \E outcome \in ConnectOutcomes :
       /\ last' = outcome
       /\ IF outcome = "connected"
            THEN /\ kpc' = "returned"
                 /\ UNCHANGED <<attempt, delay, slept>>
            ELSE IF outcome = "NoBrokersAvailable"
            THEN /\ attempt' = attempt + 1
                 /\ slept' = Append(slept, delay)
                 /\ delay' = NextDelay(delay)
                 /\ UNCHANGED kpc
            ELSE /\ kpc' = "exited"
                 /\ UNCHANGED <<attempt, delay, slept>>
  /\ UNCHANGED <<core, phase, folding, consuming, calling, max_retries, initial_delay>>

\* The loop condition fails: "failed to connect. Exiting..."; sys.exit(1).
ConnectGiveUp ==
  /\ kpc = "loop"
  /\ ~(attempt < max_retries)
  /\ kpc' = "exited"
  /\ UNCHANGED <<core, phase, folding, consuming, calling, max_retries,
                 initial_delay, attempt, delay, tried, slept, last>>

create_with_retry == ConnectAttempt \/ ConnectGiveUp

SpecStartup == InitStartup /\ [][create_with_retry]_vars

\* ------------------------------------- functions checked on their own
\* limit: int = Query(20, le=100)
LimitCap == 100

\* The limit and offset parameters tried and the number of rows the query
\* matches.
Limits == {0, 1, 20, 99, 100, 101, 1000}
Offsets == {0, 1, 120}
RowCounts == {0, 1, 100, 101, 150}

\* GET /api/requests: a limit above the bound of the Query declaration
\* fails validation and the handler is not run; otherwise the page of the
\* matching rows.
list_requests(limit, offset, rows) ==
  IF limit > LimitCap
    THEN [kind |-> "error", code |-> 422]
    ELSE LET left == IF rows > offset THEN rows - offset ELSE 0
         IN [kind |-> "response", code |-> 200, total |-> rows,
             items |-> IF left < limit THEN left ELSE limit]

\* VRAM in tenths of a GB, from below zero to above the highest tier.
VramTenths == -20 .. 260

model_configs ==
  << [min_vram |-> 20, model |-> "hugging-quants/Meta-Llama-3.1-70B-Instruct-AWQ-INT4",
      quantization |-> "awq", max_model_len |-> 8192],
     [min_vram |-> 10, model |-> "hugging-quants/Meta-Llama-3.1-8B-Instruct-AWQ-INT4",
      quantization |-> "awq", max_model_len |-> 8192],
     [min_vram |-> 6, model |-> "hugging-quants/Meta-Llama-3.1-8B-Instruct-AWQ-INT4",
      quantization |-> "awq", max_model_len |-> 4096],
     [min_vram |-> 0, model |-> "hugging-quants/Meta-Llama-3.1-8B-Instruct-AWQ-INT4",
      quantization |-> "awq", max_model_len |-> 2048] >>

\* The tier test with > for >=.
VramAbove(vram_tenths, min_vram) == vram_tenths > min_vram * 10

\* if vram_gb >= min_vram
VramReaches(vram_tenths, min_vram) == vram_tenths >= min_vram * 10

\* select_model_by_vram(vram_gb): the first configuration whose min_vram
\* the VRAM reaches, the last one when it reaches none.
select_model_by_vram(vram_tenths) ==
  LET reached == {k \in 1 .. Len(model_configs) :
                    VramReaches(vram_tenths, model_configs[k].min_vram)}
      first == IF reached = {} THEN Len(model_configs)
               ELSE CHOOSE k \in reached : \A other \in reached : k <= other
  IN [kind |-> "config",
      model |-> model_configs[first].model,
      quantization |-> model_configs[first].quantization,
      max_model_len |-> model_configs[first].max_model_len]

\* Values of SEARCH_ENGINE and of SEARXNG_URL ("None": not set).
EngineNames ==
  {"searxng", "SearXNG", "SEARXNG", "duckduckgo", "DuckDuckGo", "google", ""}
SearxngUrls == {"None", "", "http://searxng:8080"}

\* The settings get_search_engine reads: the Settings class of
\* common/config.py, which declares neither SEARCH_ENGINE nor SEARXNG_URL
\* (and ignores undeclared environment variables), or an object that
\* carries both, as the tests put in its place.
SettingsRead ==
  {[declared |-> FALSE]}
    \cup {[declared |-> TRUE, SEARCH_ENGINE |-> n, SEARXNG_URL |-> u] :
            n \in EngineNames, u \in SearxngUrls}

\* str.lower() on the names tried.
Lower(name) ==
  IF name \in {"searxng", "SearXNG", "SEARXNG"} THEN "searxng"
  ELSE IF name \in {"duckduckgo", "DuckDuckGo"} THEN "duckduckgo"
  ELSE name

\* get_search_engine(): reading an attribute the settings object does not
\* have raises AttributeError.
get_search_engine(settings) ==
  IF ~settings.declared THEN [kind |-> "raise", error |-> "AttributeError"]
  ELSE IF Lower(settings.SEARCH_ENGINE) = "searxng"
    THEN IF settings.SEARXNG_URL \in {"None", ""}
           THEN [kind |-> "engine", class |-> "DuckDuckGoSearch"]
           ELSE [kind |-> "engine", class |-> "SearXNGSearch",
                 base_url |-> settings.SEARXNG_URL]
    ELSE [kind |-> "engine", class |-> "DuckDuckGoSearch"]

\* What the collaborators of a search_and_crawl call do, for up to MaxHits
\* hits.
CrawlCalls ==
  {[engine |-> "raise", hits |-> <<>>]}
    \cup {[engine |-> "ok", hits |-> h] : h \in SeqsUpTo(FetchOutcomes, MaxHits)}

\* One of the functions is about to be called with arguments of its domain.
InitCalls ==
  /\ CoreIdle
  /\ FoldingIdle
  /\ ConsumingIdle
  /\ StartupIdle
  /\ ret = NoReturn
  /\ \/ /\ fn = "list_requests"
        /\ args \in [limit : Limits, offset : Offsets, rows : RowCounts]
     \/ /\ fn = "search_and_crawl"
        /\ args \in CrawlCalls
     \/ /\ fn = "select_model_by_vram"
        /\ args \in [vram_tenths : VramTenths]
     \/ /\ fn = "get_search_engine"
        /\ args \in [settings : SettingsRead]

CallListRequests ==
  /\ fn = "list_requests" /\ ret = NoReturn
  /\ ret' = list_requests(args.limit, args.offset, args.rows)
  /\ UNCHANGED <<core, phase, folding, consuming, startup, fn, args>>

CallSearchAndCrawl ==
  /\ fn = "search_and_crawl" /\ ret = NoReturn
  /\ ret' = [kind |-> "results", results |-> search_and_crawl(args)]
  /\ UNCHANGED <<core, phase, folding, consuming, startup, fn, args>>

CallSelectModel ==
  /\ fn = "select_model_by_vram" /\ ret = NoReturn
  /\ ret' = select_model_by_vram(args.vram_tenths)
  /\ UNCHANGED <<core, phase, folding, consuming, startup, fn, args>>

CallGetSearchEngine ==
  /\ fn = "get_search_engine" /\ ret = NoReturn
  /\ ret' = get_search_engine(args.settings)
  /\ UNCHANGED <<core, phase, folding, consuming, startup, fn, args>>

NextCalls ==
  \/ CallListRequests
  \/ CallSearchAndCrawl
  \/ CallSelectModel
  \/ CallGetSearchEngine

SpecCalls == InitCalls /\ [][NextCalls]_vars

\* ================================================================ claims
Terminal == {"completed", "failed"}

\* The search workers that hold the row of r for the message they handle:
\* between the lock query that returned the row and the end of the message.
SearchWinners(r) == {i \in SearchWorkers : scur[i] = r /\ sseen[i] = "won"}
AIWinners(r) == {j \in AIWorkers : acur[j] = r /\ aseen[j] = "won"}

\* The worker whose step this is.
SearchStep(i) == spc'[i] # spc[i]
AIStep(j) == apc'[j] # apc[j]

RowChanged(r) ==
  \/ status'[r] # status[r]
  \/ error_message'[r] # error_message[r]
  \/ completed_at'[r] # completed_at[r]

\* C1: for every request and each claimable state at most one claim attempt
\* succeeds, whatever the interleaving of replicas and duplicate deliveries:
\* the claims won so far and the attempts that hold the row never exceed
\* one, and every other worker handling the task has observed LOST.
C1_ClaimAtMostOnce ==
  \A r \in Ids :
    /\ sclaims[r] <= 1
    /\ aclaims[r] <= 1
    /\ Cardinality(SearchWinners(r)) <= 1
    /\ Cardinality(AIWinners(r)) <= 1
    /\ \A i \in SearchWorkers : scur[i] = r /\ spc[i] = "claim" => sclaims[r] = 0
    /\ \A j \in AIWorkers : acur[j] = r /\ apc[j] = "claim" => aclaims[r] = 0
    /\ \A i \in SearchWorkers :
         scur[i] = r /\ spc[i] \notin {"idle", "lock"} /\ i \notin SearchWinners(r)
           => spc[i] \in {"lost", "handler"}
    /\ \A j \in AIWorkers :
         acur[j] = r /\ apc[j] \notin {"idle", "lock"} /\ j \notin AIWinners(r)
           => apc[j] \in {"lost", "handler"}

\* The search task of r1 was delivered twice: one replica won the claim and
\* is searching while the other has observed LOST.
C1_Witness ==
  /\ sdeliv["r1"] = MaxDeliveries
  /\ sclaims["r1"] = 1
  /\ status["r1"] = "processing_search"
  /\ \E i, k \in SearchWorkers :
       /\ i # k
       /\ scur[i] = "r1" /\ spc[i] = "search"
       /\ scur[k] = "r1" /\ spc[k] = "lost" /\ sseen[k] = "processing_search"

\* C2: after intake every write to a Request row is made by the worker that
\* holds the claim on it (or is the claim itself); a worker that has not
\* won the claim, or has released the request, never changes the row.
C2_OnlyOwnerWrites ==
  [][\A r \in Requests :
       RowChanged(r) /\ status[r] # "absent" =>
         \/ ipc'[r] # ipc[r]
         \/ \E i \in SearchWorkers :
              SearchStep(i) /\ scur[i] = r /\ (sown[i] \/ sown'[i])
         \/ \E j \in AIWorkers :
              AIStep(j) /\ acur[j] = r /\ (aown[j] \/ aown'[j])]_vars

\* The edges of the lifecycle state machine.
LifecycleEdges ==
  {<<"absent", "pending">>,
   <<"pending", "searching">>,
   <<"searching", "processing_search">>,
   <<"processing_search", "analyzing">>,
   <<"processing_search", "failed">>,
   <<"analyzing", "processing_analysis">>,
   <<"processing_analysis", "completed">>,
   <<"processing_analysis", "failed">>}

\* C3: lifecycle monotonicity: every change of status is an edge of the
\* lifecycle state machine.
C3_LifecycleMonotone ==
  [][\A r \in Requests :
       status'[r] # status[r] => <<status[r], status'[r]>> \in LifecycleEdges]_vars

\* C4: terminal states are absorbing: once status is failed or completed no
\* step changes it again.
C4_TerminalAbsorbing ==
  [][\A r \in Requests : status[r] \in Terminal => status'[r] = status[r]]_vars

\* C5: exactly-one summary: a request is completed iff it has exactly one
\* AnalysisResult row, and a request in any other status has none.
C5_ExactlyOneSummary ==
  \A r \in Requests :
    /\ status[r] = "completed" <=> analysis_results[r] = 1
    /\ status[r] # "completed" => analysis_results[r] = 0

\* C6: a worker that receives the analyze task of a request it finds
\* completed leaves the Ledger unchanged in every step it takes for that
\* message, its commit call commits the offset of the task, and no request
\* ever has a second AnalysisResult row.
C6_RedeliveryIdempotent ==
  [][/\ \A j \in AIWorkers :
          AIStep(j) /\ aseen[j] = "completed" =>
            /\ ledger' = ledger
            /\ apc[j] = "lost" /\ apc'[j] = "idle" =>
                 analyzeQ'[acur[j]] = "committed"
     /\ \A r \in Requests : analysis_results'[r] <= 1]_vars

\* C7: Ledger-first: whenever the offset of a request's search task is
\* committed, the request is in analyzing, processing_analysis, completed
\* or failed, or it has no SearchResult rows.
C7_LedgerFirst ==
  \A r \in Requests :
    searchQ[r] = "committed" =>
      \/ status[r] \in {"analyzing", "processing_analysis", "completed", "failed"}
      \/ search_results[r] = 0

\* C8: on the search worker's success path the offset is committed only
\* after status = analyzing was committed and the analyze task was published
\* (is on, or was consumed from, the analyze topic).
C8_CommitAfterPublish ==
  [][\A i \in SearchWorkers :
       spc[i] = "commit" /\ spc'[i] = "idle" =>
         /\ status[scur[i]] \in
              {"analyzing", "processing_analysis", "completed", "failed"}
         /\ analyzeQ[scur[i]] \in {"queued", "committed"}]_vars

\* C9: the analysis worker commits the offset only after the AnalysisResult
\* and status completed with completed_at were committed, and these are
\* committed together: no Ledger state has the row without status completed
\* or status completed without the row.
C9_SummaryThenCommit ==
  [][/\ \A j \in AIWorkers :
          apc[j] = "commit" /\ apc'[j] = "idle" =>
            analysis_results[acur[j]] >= 1 /\ completed_at[acur[j]]
     /\ \A r \in Requests :
          analysis_results'[r] >= 1 <=> status'[r] = "completed"]_vars

\* C10: a worker whose claim attempt is LOST, or that finds the row absent
\* or terminal, writes no row and publishes nothing in any step it takes
\* for that message, and its commit call commits the offset of the task.
C10_LoserOnlyCommits ==
  [][/\ \A i \in SearchWorkers :
          SearchStep(i) /\ sseen[i] \notin {"-", "won"} =>
            /\ ledger' = ledger /\ analyzeQ' = analyzeQ
            /\ spc[i] = "lost" /\ spc'[i] = "idle" =>
                 searchQ'[scur[i]] = "committed"
     /\ \A j \in AIWorkers :
          AIStep(j) /\ aseen[j] \notin {"-", "won"} =>
            /\ ledger' = ledger /\ searchQ' = searchQ
            /\ apc[j] = "lost" /\ apc'[j] = "idle" =>
                 analyzeQ'[acur[j]] = "committed"]_vars

\* C11: when an exception is raised in the search worker after it won the
\* claim and before SearchResult rows are inserted, the step that handles
\* it leaves the request failed with the exception's message and the offset
\* of the search task committed.
C11_SearchExceptionFails ==
  [][\A i \in SearchWorkers :
       /\ spc[i] = "handler" /\ SearchStep(i)
       /\ sseen[i] = "won" /\ search_results[scur[i]] = 0
       => /\ status'[scur[i]] = "failed"
          /\ error_message'[scur[i]] = "exception"
          /\ searchQ'[scur[i]] = "committed"]_vars

\* C12: when the summarizer or another step after the claim raises in the
\* analysis worker, the step that handles it leaves the request failed with
\* the exception's text and without an AnalysisResult, and the offset of
\* the analyze task is committed once the Ledger is written.
C12_AnalysisExceptionFails ==
  [][\A j \in AIWorkers :
       /\ apc[j] = "handler" /\ AIStep(j)
       /\ aseen[j] = "won" /\ aown[j]
       => /\ status'[acur[j]] = "failed"
          /\ error_message'[acur[j]] = "exception"
          /\ analysis_results'[acur[j]] = 0
          /\ analyzeQ'[acur[j]] = "committed"]_vars

\* The exception a worker is handling was raised by a step other than the
\* offset commit: by the publish of the analyze task, or by the analysis.
SearchRaisedBeforeCommit(i) ==
  sseen[i] = "won" /\ search_results[scur[i]] > 0 /\ analyzeQ[scur[i]] = "none"
AIRaisedBeforeCommit(j) == aseen[j] = "won" /\ aown[j]

\* C13: an exception raised while a message is processed never ends the
\* consumer loop: the step that handles it, the recording of the failure
\* included, leaves the worker ready for the next message, and the offset
\* of the failing message is committed.
C13_LoopSurvives ==
  [][/\ \A i \in SearchWorkers :
          spc[i] = "handler" /\ SearchStep(i) =>
            /\ spc'[i] = "idle"
            /\ SearchRaisedBeforeCommit(i) => searchQ'[scur[i]] = "committed"
     /\ \A j \in AIWorkers :
          apc[j] = "handler" /\ AIStep(j) =>
            /\ apc'[j] = "idle"
            /\ AIRaisedBeforeCommit(j) => analyzeQ'[acur[j]] = "committed"]_vars

\* The worker won the claim and its search gave an empty result set: it is
\* about to record that, or has recorded it and still handles the message.
SearchCameBackEmpty(i) ==
  /\ sseen[i] = "won"
  /\ \/ spc[i] = "store" /\ search_and_crawl(scrawl[i]) = <<>>
     \/ spc[i] = "commit_failed"
     \/ spc[i] = "handler" /\ search_results[scur[i]] = 0

\* C14: when the search of a claimed request gives an empty result set,
\* every further step of the worker for that message leaves the request
\* failed with error_message "No search results found", without
\* SearchResult or AnalysisResult rows and without an analyze task, and the
\* worker is done with the message only with its offset committed.
C14_EmptyResultFails ==
  [][\A i \in SearchWorkers :
       SearchStep(i) /\ SearchCameBackEmpty(i) =>
         /\ status'[scur[i]] = "failed"
         /\ error_message'[scur[i]] = "No search results found"
         /\ search_results'[scur[i]] = 0
         /\ analysis_results'[scur[i]] = 0
         /\ analyzeQ'[scur[i]] = "none"
         /\ spc'[i] \in {"idle", "ended"} => searchQ'[scur[i]] = "committed"]_vars

CrawlRaised(c) ==
  c.engine = "raise" \/ \E k \in 1 .. Len(c.hits) : c.hits[k] = "raise"

\* The hits of the call whose fetch and extract gave content.
ContentHits(c) == {k \in 1 .. Len(c.hits) : c.hits[k] = "content"}

\* C16: an exception of a collaborator of the search stage does not fail
\* the request: the worker that stores the outcome of such a search goes on
\* to hand the request off, leaves status as it is, and stores a row for
\* every hit that gave content.
C16_CollaboratorErrorNotFatal ==
  [][\A i \in SearchWorkers :
       spc[i] = "store" /\ SearchStep(i) /\ CrawlRaised(scrawl[i]) =>
         /\ spc'[i] = "advance"
         /\ status'[scur[i]] = status[scur[i]]
         /\ search_results'[scur[i]] >=
              search_results[scur[i]] + Cardinality(ContentHits(scrawl[i]))]_vars

\* The publish of the search task of r failed: send_data raised and intake
\* gave up, or the record it buffered was never written to the topic.
PublishFailed(r) ==
  \/ ipc[r] = "done" /\ searchQ[r] = "none"
  \/ searchQ[r] = "lost"

\* C17: when the publish of the search task fails after the row was
\* inserted, the request stays pending (intake does not move it to
\* searching) and the task is not published again.
C17_PublishFailureLeavesPending ==
  [][\A r \in Requests :
       PublishFailed(r) =>
         /\ status[r] = "pending" /\ status'[r] = "pending"
         /\ searchQ'[r] = searchQ[r]]_vars

\* analyze() returned its answer for r: the row is inserted, the search
\* task handed to the producer and the status write done.
Accepted(r) == ipc[r] = "done" /\ searchQ[r] # "none"

\* Nothing is left to do: every worker waits for a message, and every task
\* that was published has been delivered and its offset committed.
Quiescent ==
  /\ \A i \in SearchWorkers : spc[i] = "idle"
  /\ \A j \in AIWorkers : apc[j] = "idle"
  /\ \A r \in Ids : searchQ[r] \in {"none", "committed"}
  /\ \A r \in Ids : analyzeQ[r] \in {"none", "committed"}

\* C18: every accepted request reaches completed or failed: whenever
\* intake, the bus and the workers have done all there is to do, without a
\* crash and without a lost message, the request is completed or failed.
C18_EveryRequestEnds ==
  \A r \in Requests : Accepted(r) /\ Quiescent => status[r] \in Terminal

\* The request is in a processing state and no worker holds the claim on
\* it: the worker that claimed it is gone.
Orphaned(r) ==
  \/ /\ status[r] = "processing_search"
     /\ \A i \in SearchWorkers : ~(scur[i] = r /\ sown[i])
  \/ /\ status[r] = "processing_analysis"
     /\ \A j \in AIWorkers : ~(acur[j] = r /\ aown[j])

\* C19: once the worker that moved a request to processing_search or
\* processing_analysis has died, no step changes the request or its rows:
\* a worker that receives the task again does not get the claim and writes
\* nothing.
C19_OrphanNeverChanges ==
  [][\A r \in Requests :
       Orphaned(r) =>
         /\ ~RowChanged(r)
         /\ search_results'[r] = search_results[r]
         /\ analysis_results'[r] = analysis_results[r]
         /\ \A i \in SearchWorkers : scur[i] = r => spc'[i] # "claim"
         /\ \A j \in AIWorkers : acur[j] = r => apc'[j] # "claim"]_vars

\* C20: the SearchResult rows of a request are written in one batch, by
\* the worker that holds the searching claim and while the request is in
\* processing_search; no second batch is written and the rows, once
\* written, never change.
C20_OneSearchBatch ==
  [][\A r \in Requests :
       search_results'[r] # search_results[r] =>
         /\ search_results[r] = 0
         /\ status[r] = "processing_search"
         /\ \E i \in SearchWorkers :
              SearchStep(i) /\ scur[i] = r /\ sown[i] /\ sseen[i] = "won"]_vars

\* C21: every prompt submitted to the summarizer, map prompt or final
\* prompt, is together with the output budget of its call at most
\* MAX_MODEL_LEN tokens.
C21_PromptsWithinCeiling ==
  \A c \in 1 .. Len(calls) :
    \A p \in 1 .. Len(calls[c].prompts) :
      calls[c].prompts[p].tokens + calls[c].max_tokens <= max_model_len

\* C22: a final context built from chunk summaries that is above MAX_CONTEXT_TOKENS
\* tokens is not submitted: the step that follows the reduce step makes no
\* summarizer call.
C22_OverflowingReduceNotSubmitted ==
  [][fpc = "final" /\ path = "fold" /\ ContextTokens(final_context) > MAX_CONTEXT_TOKENS
       => calls' = calls]_vars

\* C23: with T the token count of the joined items, the direct path is
\* taken exactly when T <= MAX_MODEL_LEN - RESERVED_TOKENS; on the direct
\* path the final context is the unchanged items, nothing is chunked and
\* the only summarizer call is the final one; otherwise chunking starts.
C23_PathSelection ==
  /\ fpc # "start" => total_tokens = JoinTokens(content_items)
  /\ fpc \notin {"start", "select"} =>
       /\ path \in {"direct", "fold"}
       /\ path = "direct" <=> total_tokens <= max_model_len - RESERVED_TOKENS
       /\ path = "fold" <=> total_tokens >= max_model_len - RESERVED_TOKENS + 1
  /\ path = "direct" =>
       /\ fpc \in {"final", "done"}
       /\ final_context = [kind |-> "items", parts |-> content_items]
       /\ chunks = <<>> /\ intermediate_summaries = <<>>
       /\ \A c \in 1 .. Len(calls) : calls[c].max_tokens = FinalMaxTokens
       /\ Len(calls) = IF fpc = "done" THEN 1 ELSE 0
  /\ path = "fold" /\ fpc \in {"reduce", "final", "done"} =>
       /\ calls[1].max_tokens = MapMaxTokens
       /\ Len(calls[1].prompts) >= 1

\* An input of exactly MAX_CONTEXT_TOKENS tokens was summarized on the
\* direct path.
C23_Witness ==
  /\ fpc = "done"
  /\ path = "direct"
  /\ total_tokens = max_model_len - RESERVED_TOKENS
  /\ Len(calls) = 1
  /\ calls[1].prompts[1].context.parts = content_items

RECURSIVE Flatten(_)
\* The items of a sequence of chunks, in the order of the chunks.
Flatten(cs) == IF cs = <<>> THEN <<>> ELSE Head(cs) \o Flatten(Tail(cs))

\* The chunking loop has run to its end.
Chunked == path = "fold" /\ fpc \in {"map", "reduce", "final", "done"}

\* Every item is in exactly one chunk and the chunks keep the input order.
InOrderExactlyOnce ==
  /\ Len(Flatten(chunks)) = Len(content_items)
  /\ \A k \in 1 .. Len(content_items) : Flatten(chunks)[k].id = k

\* No item of the chunk was cut by the chunking loop.
Uncut(chunk) == \A k \in 1 .. Len(chunk) : ~chunk[k].marker

\* C24: once the items are chunked, the chunks hold every item exactly
\* once in input order, no chunk is empty, and every chunk, its items
\* joined by the separator, is at most MAP_CHUNK_SIZE tokens (stated here
\* for the chunks of items that were not cut; C25 is about an item that
\* was).
C24_ChunksWithinSize ==
  Chunked =>
    /\ InOrderExactlyOnce
    /\ \A c \in 1 .. Len(chunks) :
         /\ chunks[c] # <<>>
         /\ Uncut(chunks[c]) => JoinTokens(chunks[c]) <= MAP_CHUNK_SIZE

\* Item k of the input, above MAP_CHUNK_SIZE tokens, is in the chunks, cut
\* to the share MAP_CHUNK_SIZE / item_tokens of its characters and ending
\* in the truncation marker.
KeptCut(k) ==
  /\ k <= Len(Flatten(chunks))
  /\ Flatten(chunks)[k].id = k
  /\ Flatten(chunks)[k].marker
  /\ Flatten(chunks)[k].chars =
       (content_items[k].chars * MAP_CHUNK_SIZE) \div content_items[k].tokens
         + MarkerChars

\* C25: once the items are chunked, every item that was above
\* MAP_CHUNK_SIZE tokens is still there, cut in proportion with the
\* truncation marker appended, and the item as it now is, marker included,
\* is at most MAP_CHUNK_SIZE tokens.
C25_OversizedItemFits ==
  Chunked =>
    \A k \in 1 .. Len(content_items) :
      content_items[k].tokens > MAP_CHUNK_SIZE =>
        /\ KeptCut(k)
        /\ Flatten(chunks)[k].tokens <= MAP_CHUNK_SIZE

\* The map call has been made.
Mapped == path = "fold" /\ fpc \in {"reduce", "final", "done"}

\* C26 as claimed: the number of map prompts is ceil(T / MAP_CHUNK_SIZE)
\* for T = total_tokens, and they are all in one call.
C26_MapCallsCeil ==
  Mapped =>
    /\ Len(calls[1].prompts) = CeilDiv(total_tokens, MAP_CHUNK_SIZE)
    /\ \A c \in 2 .. Len(calls) : calls[c].max_tokens # MapMaxTokens

\* What the chunking loop counts for a chunk: each item's token count,
\* MAP_CHUNK_SIZE for an item above it.
Accounted(chunk) ==
  SumTokens([k \in 1 .. Len(chunk) |->
    [tokens |-> IF content_items[chunk[k].id].tokens > MAP_CHUNK_SIZE
                  THEN MAP_CHUNK_SIZE
                  ELSE content_items[chunk[k].id].tokens]])

\* C26: the number K of map prompts is the number of chunks of the greedy
\* partition: between 1 and the number of items, enough chunks of
\* MAP_CHUNK_SIZE for what the loop counts for the items, and no chunk
\* with room left for the first item of the next one; all K are in one
\* call, the only map call.
C26_MapCallsPerChunk ==
  Mapped =>
    /\ Len(calls[1].prompts) = Len(chunks)
    /\ calls[1].max_tokens = MapMaxTokens
    /\ \A c \in 2 .. Len(calls) : calls[c].max_tokens # MapMaxTokens
    /\ Len(chunks) >= 1
    /\ Len(chunks) <= Len(content_items)
    /\ Len(chunks) * MAP_CHUNK_SIZE >= Accounted(Flatten(chunks))
    /\ \A c \in 1 .. Len(chunks) - 1 :
         Accounted(chunks[c]) + Accounted(<<Head(chunks[c + 1])>>) > MAP_CHUNK_SIZE

\* Three chunks were mapped in one call for an input that
\* ceil(T / MAP_CHUNK_SIZE) puts at two.
C26_Witness ==
  /\ fpc = "done"
  /\ path = "fold"
  /\ Len(chunks) = 3
  /\ Len(calls[1].prompts) = 3
  /\ CeilDiv(total_tokens, MAP_CHUNK_SIZE) = 2

\* C27: the map call, the first and only one, holds one prompt per chunk,
\* the i-th on chunk i and labelled i of K; the final context is the K
\* summaries in chunk order, the i-th being the answer to prompt i and
\* labelled i; it goes unchanged into the one final call, which is the
\* second and last call.
C27_SingleBatchSingleLevel ==
  /\ Mapped =>
       /\ Len(calls[1].prompts) = Len(chunks)
       /\ calls[1].max_tokens = MapMaxTokens
       /\ \A i \in 1 .. Len(chunks) :
            /\ calls[1].prompts[i].index = i
            /\ calls[1].prompts[i].of = Len(chunks)
            /\ calls[1].prompts[i].chunk = chunks[i]
       /\ Len(intermediate_summaries) = Len(chunks)
       /\ \A i \in 1 .. Len(chunks) : intermediate_summaries[i].answers = i
       /\ Len(calls) = IF fpc = "done" THEN 2 ELSE 1
  /\ path = "fold" /\ fpc \in {"final", "done"} =>
       /\ final_context.kind = "summaries"
       /\ Len(final_context.parts) = Len(chunks)
       /\ \A i \in 1 .. Len(chunks) :
            /\ final_context.parts[i].label = i
            /\ final_context.parts[i].summary = intermediate_summaries[i]
  /\ path = "fold" /\ fpc = "done" =>
       /\ calls[2].max_tokens = FinalMaxTokens
       /\ Len(calls[2].prompts) = 1
       /\ calls[2].prompts[1].context = final_context

\* Three chunks were summarized in one batch and their summaries, of
\* different lengths, went into the final call.
C27_Witness ==
  /\ fpc = "done"
  /\ path = "fold"
  /\ Len(chunks) = 3
  /\ Len(calls) = 2
  /\ Len(calls[1].prompts) = 3
  /\ intermediate_summaries[1].tokens # intermediate_summaries[2].tokens
  /\ Len(calls[2].prompts[1].context.parts) = 3

\* An analysis worker takes the analyze task of r from the topic.
AITaken(r) == adeliv'[r] = adeliv[r] + 1

\* C28: an analyze task with phase generate_queries is taken up as one
\* with phase analyze or with no phase is: the worker that receives it goes
\* on to the claim attempt for the task's request, with the Ledger and the
\* offset as they were; every later step is the same for all three, since
\* no later step reads the phase.
C28_GenerateQueriesAsAnalyze ==
  [][\A r \in Ids :
       AITaken(r) /\ phase[r] \in {"none", "analyze", "generate_queries"}
       => /\ \E j \in AIWorkers :
               apc[j] = "idle" /\ apc'[j] = "lock" /\ acur'[j] = r
          /\ UNCHANGED <<ledger, lock, analyzeQ, phase>>]_vars

\* A task with phase generate_queries was analysed to the end: result
\* stored, request completed, offset committed.
C28_Witness ==
  /\ phase["r1"] = "generate_queries"
  /\ status["r1"] = "completed"
  /\ analysis_results["r1"] = 1
  /\ analyzeQ["r1"] = "committed"
  /\ aclaims["r1"] = 1

\* C29: an analyze task whose phase is neither analyze nor generate_queries
\* is not passed over in silence: taking it raises an error into the
\* handler, fails the request or commits the offset.
C29_UnknownPhaseSurfaces ==
  [][\A r \in Ids :
       AITaken(r) /\ phase[r] \notin {"none", "analyze", "generate_queries"}
       => \/ \E j \in AIWorkers : apc'[j] = "handler" /\ acur'[j] = r
          \/ status'[r] = "failed"
          \/ analyzeQ'[r] = "committed"]_vars

\* C30: once the signal has been handled no further message is yielded,
\* and the message sequence does not come to rest unfinished: when no
\* message arrives any more and neither the generator nor the worker has a
\* step left, the sequence has terminated.
C30_TerminatesAfterSignal ==
  stop_event /\ ~producing /\ ~ENABLED NextConsumer => cpc = "finished"

RECURSIVE Pow2(_)
Pow2(n) == IF n = 0 THEN 1 ELSE 2 * Pow2(n - 1)

\* C31: the connection loop calls the constructor at most max_retries
\* times; the wait after the k-th failed attempt is
\* initial_delay * 2^(k-1); the client is returned on the first success and
\* only then; after max_retries failed attempts, or after any other error,
\* the process exits and no further attempt is made; until then every
\* failed attempt is followed by the next one.
C31_BoundedBackoff ==
  /\ tried <= max_retries
  /\ Len(slept) = attempt
  /\ \A k \in 1 .. Len(slept) : slept[k] = initial_delay * Pow2(k - 1)
  /\ kpc = "returned" <=> last = "connected"
  /\ kpc = "returned" => tried = attempt + 1
  /\ kpc = "loop" => tried = attempt /\ last \in {"none", "NoBrokersAvailable"}
  /\ kpc = "exited" =>
       \/ last = "Exception" /\ tried = attempt + 1
       \/ last \in {"none", "NoBrokersAvailable"}
            /\ tried = max_retries /\ attempt = max_retries
  /\ kpc \in {"returned", "exited"} => ~ENABLED create_with_retry

\* The broker was unavailable for all but the last of the allowed attempts:
\* the waits doubled each time and the client was returned.
C31_Witness ==
  /\ kpc = "returned"
  /\ max_retries = MaxRetries
  /\ tried = MaxRetries
  /\ Len(slept) = MaxRetries - 1
  /\ slept[Len(slept)] > 2 * initial_delay

\* list_requests has answered.
Listed == fn = "list_requests" /\ ret # NoReturn

\* C32: a listing request with a limit above the cap succeeds and returns
\* at most cap items.
C32_LimitClamped ==
  Listed /\ args.limit > LimitCap =>
    /\ ret.kind = "response"
    /\ ret.code = 200
    /\ ret.items <= LimitCap

\* search_and_crawl has returned.
Crawled == fn = "search_and_crawl" /\ ret # NoReturn

\* The ranks of the results returned, in the order returned.
RanksReturned == [k \in 1 .. Len(ret.results) |-> ret.results[k].rank]

\* Whether the sequence of numbers is strictly increasing.
Increasing(q) == \A k \in 1 .. Len(q) - 1 : q[k] < q[k + 1]

\* The candidates the search produced.
Candidates == IF args.engine = "raise" THEN {} ELSE 1 .. Len(args.hits)

\* The candidates whose extracted body passes the threshold.
Passing == {k \in Candidates : args.hits[k] = "content"}

Selected == fn = "select_model_by_vram" /\ ret # NoReturn

EngineAsked == fn = "get_search_engine" /\ ret # NoReturn

\* The engine name read is searxng in some letter case and a SearXNG URL
\* is set.
SearxngConfigured ==
  /\ args.settings.declared
  /\ args.settings.SEARCH_ENGINE \in {"searxng", "SearXNG", "SEARXNG"}
  /\ args.settings.SEARXNG_URL \notin {"None", ""}

\* C35: get_search_engine returns an engine in every case: the SearXNG
\* engine exactly when the engine name is searxng in some letter case and a
\* SearXNG URL is set, and the DuckDuckGo engine in every other case.
C35_EngineSelection ==
  EngineAsked =>
    /\ ret.kind = "engine"
    /\ ret.class = "SearXNGSearch" <=> SearxngConfigured
    /\ ret.class = "DuckDuckGoSearch" <=> ~SearxngConfigured

\* C36: the SearchResult rows and status = analyzing are committed
\* together: no committed Ledger state holds SearchResult rows of a
\* request whose status is still processing_search.
C36_InsertWithTransition ==
  \A r \in Ids : status[r] = "processing_search" => search_results[r] = 0

\* completed_at and error_message agree with the status.
FieldsAgree ==
  \A r \in Ids :
    /\ completed_at[r] <=> status[r] = "completed"
    /\ error_message[r] # "null" => status[r] = "failed"

\* A field that is set keeps its value.
FieldsKept ==
  \A r \in Ids :
    /\ completed_at[r] => completed_at'[r]
    /\ error_message[r] # "null" => error_message'[r] = error_message[r]

\* C37: every step leads to a state in which completed_at is set exactly
\* when status is completed and error_message is set only when status is
\* failed, and no step changes a field that was set.
C37_TerminalFieldsSetOnce ==
  [][FieldsAgree' /\ FieldsKept]_vars

\* C38: a search worker that commits the offset of a search task without
\* having won the claim does so only for a request that is absent, past the
\* searching state, or claimed by another worker: never for a request that
\* is still pending, or searching with nobody holding its row.
C38_TaskNotDropped ==
  [][\A i \in SearchWorkers :
       spc[i] = "lost" /\ spc'[i] = "idle" =>
         /\ status[scur[i]] # "pending"
         /\ status[scur[i]] = "searching" => lock[scur[i]] \notin {NoOne, i}]_vars

\* A search worker is handling the search task of r.
SearchBusy(r) == \E i \in SearchWorkers : scur[i] = r /\ spc[i] # "idle"

\* C39: a request whose status is analyzing has its analyze task on its
\* way to the analyze queue or on it, with the offset not committed (stated
\* here for the states in which no search worker is handling the request's
\* search task, so that a hand-off still in progress does not count).
C39_AnalyzingHasTask ==
  \A r \in Ids :
    status[r] = "analyzing" /\ ~SearchBusy(r) => analyzeQ[r] \in {"sending", "queued"}

\* The states a request is in from the hand-off to analysis onwards.
HandedOff == {"analyzing", "processing_analysis", "completed"}

\* C40: every step leads to a state in which each request that is
\* analyzing, processing_analysis or completed has a SearchResult row, and
\* a step that sets analyzing finds the rows already committed.
C40_RowsBeforeAnalyzing ==
  [][\A r \in Ids :
       /\ status'[r] \in HandedOff => search_results'[r] >= 1
       /\ status'[r] = "analyzing" /\ status[r] # "analyzing" =>
            /\ search_results[r] >= 1
            /\ search_results'[r] = search_results[r]]_vars

\* The winner of r1 has stored a row and then set analyzing; it is about to
\* publish the analyze task.
C40_Witness ==
  /\ status["r1"] = "analyzing"
  /\ search_results["r1"] = 1
  /\ \E i \in SearchWorkers :
       scur[i] = "r1" /\ sseen[i] = "won" /\ spc[i] = "publish"

====
